---- MODULE Spec2Model ----
(***************************************************************************)
(* Model of iemocap/build_iemocap_ekman_emoberta_splits.py: the loader     *)
(* load_split, the label table MAP_11_TO_7 and the aggregator              *)
(* build_iemocap_ekman7.  Python strings are sequences of one-character    *)
(* strings, so that endswith, splitext, split, join, strip, lower and      *)
(* startswith are computed character by character.                         *)
(***************************************************************************)
EXTENDS Integers, Sequences, FiniteSets, TLC

(* ---------------------------------------------------------------------- *)
(* Bounds                                                                  *)
(* ---------------------------------------------------------------------- *)

\* Largest number of directory entries the three split directories hold
\* together in one run.
MaxFiles == 3

\* The same, for the runs over the corpus with the whole label vocabulary.
MaxLabelFiles == 1

(* ---------------------------------------------------------------------- *)
(* Python string primitives                                                *)
(* ---------------------------------------------------------------------- *)

UpperChars == <<"A", "B", "C", "D", "E", "F", "G", "H", "I", "J", "K", "L", "M",
                "N", "O", "P", "Q", "R", "S", "T", "U", "V", "W", "X", "Y", "Z">>

LowerChars == <<"a", "b", "c", "d", "e", "f", "g", "h", "i", "j", "k", "l", "m",
                "n", "o", "p", "q", "r", "s", "t", "u", "v", "w", "x", "y", "z">>

Whitespace == {" ", "\t", "\n", "\r"}

\* str.lower() on one character
LowerChar(c) ==
    IF \E i \in 1..Len(UpperChars) : UpperChars[i] = c
    THEN LowerChars[CHOOSE i \in 1..Len(UpperChars) : UpperChars[i] = c]
    ELSE c

\* str.lower()
Lower(s) == [i \in 1..Len(s) |-> LowerChar(s[i])]

\* str.strip(): drop leading and trailing whitespace
Strip(s) ==
    LET nonws == {i \in 1..Len(s) : s[i] \notin Whitespace}
    IN  IF nonws = {} THEN <<>>
        ELSE LET lo == CHOOSE i \in nonws : \A j \in nonws : i <= j
                 hi == CHOOSE i \in nonws : \A j \in nonws : j <= i
             IN  SubSeq(s, lo, hi)

\* str.startswith(pre)
StartsWith(s, pre) ==
    /\ Len(s) >= Len(pre)
    /\ SubSeq(s, 1, Len(pre)) = pre

\* str.endswith(suf)
EndsWith(s, suf) ==
    /\ Len(s) >= Len(suf)
    /\ SubSeq(s, Len(s) - Len(suf) + 1, Len(s)) = suf

\* os.path.splitext(p)[0] for a path without separators: cut at the last
\* dot, unless only dots precede it (a leading-dot name has no extension).
SplitextRoot(p) ==
    LET dots == {i \in 1..Len(p) : p[i] = "."}
    IN  IF dots = {} THEN p
        ELSE LET dotIndex == CHOOSE i \in dots : \A j \in dots : j <= i
             IN  IF \E k \in 1..(dotIndex - 1) : p[k] # "."
                 THEN SubSeq(p, 1, dotIndex - 1)
                 ELSE p

\* str.split(sep) for a one-character separator: scan left to right,
\* closing a segment at every separator (empty segments are kept).
RECURSIVE SplitFrom(_, _, _, _)
SplitFrom(s, sep, i, cur) ==
    IF i > Len(s) THEN <<cur>>
    ELSE IF s[i] = sep THEN <<cur>> \o SplitFrom(s, sep, i + 1, <<>>)
    ELSE SplitFrom(s, sep, i + 1, Append(cur, s[i]))

SplitStr(s, sep) == SplitFrom(s, sep, 1, <<>>)

\* sep.join(parts)
RECURSIVE JoinStr(_, _)
JoinStr(parts, sep) ==
    IF Len(parts) = 0 THEN <<>>
    ELSE IF Len(parts) = 1 THEN parts[1]
    ELSE parts[1] \o <<sep>> \o JoinStr(Tail(parts), sep)

\* parts[:-1]
AllButLast(parts) == SubSeq(parts, 1, Len(parts) - 1)

(* ---------------------------------------------------------------------- *)
(* String constants                                                        *)
(* ---------------------------------------------------------------------- *)

DOT_JSON == <<".", "j", "s", "o", "n">>

s_anger       == <<"a", "n", "g", "e", "r">>
s_frustration == <<"f", "r", "u", "s", "t", "r", "a", "t", "i", "o", "n">>
s_sadness     == <<"s", "a", "d", "n", "e", "s", "s">>
s_neutral     == <<"n", "e", "u", "t", "r", "a", "l">>
s_happiness   == <<"h", "a", "p", "p", "i", "n", "e", "s", "s">>
s_excited     == <<"e", "x", "c", "i", "t", "e", "d">>
s_surprise    == <<"s", "u", "r", "p", "r", "i", "s", "e">>
s_fear        == <<"f", "e", "a", "r">>
s_disgust     == <<"d", "i", "s", "g", "u", "s", "t">>
s_joy         == <<"j", "o", "y">>
s_undecided   == <<"u", "n", "d", "e", "c", "i", "d", "e", "d">>
s_other       == <<"o", "t", "h", "e", "r">>

\* MAP_11_TO_7: nine keys; "undecided" and "other" have no entry.
MAP_11_TO_7 ==
    (s_anger :> s_anger) @@ (s_frustration :> s_anger) @@
    (s_sadness :> s_sadness) @@
    (s_neutral :> s_neutral) @@
    (s_happiness :> s_joy) @@ (s_excited :> s_joy) @@
    (s_surprise :> s_surprise) @@ (s_fear :> s_fear) @@ (s_disgust :> s_disgust)


(* ---------------------------------------------------------------------- *)
(* Inputs: command line, directory entries, file contents                  *)
(* ---------------------------------------------------------------------- *)

\* --raw_text_root values
RootPaths == {"IEMOCAP/raw-texts", "."}

\* --out_dir values ("." is the default)
OutDirs == {"."}

\* splits = ["train", "val", "test"]
splits == <<"train", "val", "test">>

SplitNames == {splits[i] : i \in 1..Len(splits)}

n_a_1   == <<"a", "_", "1">> \o DOT_JSON
n_b_c_2 == <<"b", "_", "c", "_", "2">> \o DOT_JSON
n_a     == <<"a">> \o DOT_JSON
n_txt   == <<"a", "_", "1", ".", "t", "x", "t">>
n_dot   == DOT_JSON

\* Names a directory entry can have: two well-formed utterance files (two
\* and three segments), a stem without underscore, a non-JSON entry and the
\* bare ".json", whose stem os.path.splitext leaves whole.
FileNames == {n_a_1, n_b_c_2, n_a, n_txt, n_dot}

t_hi  == <<"h", "i">>
t_bye == <<" ", "b", "y", "e", "\n">>

\* A parsed JSON object: a function from the keys present to string values.
Obj(d) == [kind |-> "object", data |-> d]

\* Content json.load rejects
InvalidJson == [kind |-> "invalid", data |-> [k \in {} |-> <<>>]]

\* Valid JSON whose top level is an array, not an object
JsonArray == [kind |-> "array", data |-> [k \in {} |-> <<>>]]

c_happiness ==
    Obj([Utterance |-> t_hi, Emotion |-> <<"H">> \o Tail(s_happiness),
         Speaker |-> <<"F", "e", "m", "a", "l", "e">>])

c_undecided ==
    Obj([Utterance |-> t_bye, Emotion |-> s_undecided,
         Speaker |-> <<"M", "a", "l", "e">>])

c_anger ==
    Obj([Utterance |-> t_bye, Emotion |-> <<" ">> \o s_anger \o <<"\n">>,
         Speaker |-> <<" ", "m", "a", "l", "e">>])

\* The contents of the files of a small dialogue corpus: two mapped labels
\* (one capitalised, one padded with whitespace), one unmapped label, one
\* file json.load rejects and one that holds a JSON array.
DialogueContents == {c_happiness, c_undecided, c_anger, InvalidJson, JsonArray}

\* The contents of a corpus that exercises the whole label vocabulary: the
\* nine keys of MAP_11_TO_7, "undecided", "other", the target label "joy"
\* (not a key) and a record without Emotion field.
LabelContents == DialogueContents \cup {
    Obj([Emotion |-> <<"F", "R", "U", "S", "T", "R", "A", "T", "I", "O", "N">>]),
    Obj([Utterance |-> t_hi, Emotion |-> s_sadness, Speaker |-> <<"X">>]),
    Obj([Utterance |-> t_hi, Emotion |-> s_neutral]),
    Obj([Utterance |-> t_hi, Emotion |-> s_excited]),
    Obj([Utterance |-> t_hi, Emotion |-> s_surprise]),
    Obj([Utterance |-> t_hi, Emotion |-> s_fear]),
    Obj([Utterance |-> t_hi, Emotion |-> s_disgust]),
    Obj([Utterance |-> t_hi, Emotion |-> s_other]),
    Obj([Utterance |-> t_hi, Emotion |-> s_joy]),
    Obj([Utterance |-> t_hi, Speaker |-> <<"F", "e", "m", "a", "l", "e">>])
}

(* ---------------------------------------------------------------------- *)
(* load_split: the body of the loop over directory entries                 *)
(* ---------------------------------------------------------------------- *)

NoRow == [Split |-> "none"]

\* The value one loop iteration produces: kind is
\*   "not_json"  entry skipped by the extension test
\*   "bad_name"  entry skipped with the utt_id warning
\*   "raise"     an exception left the loop (exc names it)
\*   "dropped"   file read, emotion not in MAP_11_TO_7
\*   "row"       file read, row appended
Outcome(kind, opened, utt_id, exc, row) ==
    [kind |-> kind, opened |-> opened, utt_id |-> utt_id, exc |-> exc, row |-> row]

\* data.get(key, "")
Get(data, key) == IF key \in DOMAIN data THEN data[key] ELSE <<>>

\* A loader that swallows the parse error and goes on with an empty object
JsonLoad_Lenient(content) ==
    IF content.kind = "invalid"
    THEN [raised |-> FALSE, value |-> Obj([k \in {} |-> <<>>])]
    ELSE [raised |-> FALSE, value |-> content]

\* json.load(f): the parsed value, or the JSONDecodeError
JsonLoad(content) ==
    IF content.kind = "invalid"
    THEN [raised |-> TRUE, value |-> content]
    ELSE [raised |-> FALSE, value |-> content]

\* The emotion label trimmed but not lower-cased
OrigEmotion_NoLower(data) == Strip(Get(data, "Emotion"))

\* str(data.get("Emotion", "")).strip().lower()
OrigEmotion(data) == Lower(Strip(Get(data, "Emotion")))

\* "Female"/"Male" -> "F"/"M", anything else kept
NormSpeaker(speaker_raw) ==
    LET s_lower == Lower(speaker_raw)
    IN  IF StartsWith(s_lower, <<"f">>) THEN <<"F">>
        ELSE IF StartsWith(s_lower, <<"m">>) THEN <<"M">>
        ELSE speaker_raw

\* The first segment alone
DialogueId_First(parts) == parts[1]

\* "_".join(parts[:-1])
DialogueId(parts) == JoinStr(AllButLast(parts), "_")

\* The segment test off by one
NameTooShort_Off(parts) == Len(parts) < 1

\* len(parts) < 2
NameTooShort(parts) == Len(parts) < 2

\* Lines 132-166: open and parse the file, read the three fields, look the
\* emotion up and build the row.
ReadAndMap(split_name, utt_id, dialogue_id, content) ==
    LET loaded == JsonLoad(content)
    IN  IF loaded.raised
        THEN Outcome("raise", TRUE, utt_id, "JSONDecodeError", NoRow)
        ELSE IF loaded.value.kind # "object"
        THEN Outcome("raise", TRUE, utt_id, "AttributeError", NoRow)
        ELSE
            LET data == loaded.value.data
                text == Strip(Get(data, "Utterance"))
                orig_emotion == OrigEmotion(data)
                speaker_raw == Strip(Get(data, "Speaker"))
            IN  IF orig_emotion \notin DOMAIN MAP_11_TO_7
                THEN Outcome("dropped", TRUE, utt_id, "none", NoRow)
                ELSE Outcome("row", TRUE, utt_id, "none",
                             [Split |-> split_name,
                              Dialogue_ID |-> dialogue_id,
                              Utterance_ID |-> utt_id,
                              Speaker |-> NormSpeaker(speaker_raw),
                              Utterance |-> text,
                              Emotion |-> MAP_11_TO_7[orig_emotion],
                              Original_Emotion |-> orig_emotion])

\* The loop body with the file opened and parsed before the underscore test
LoopBody_OpenFirst(split_name, fname, content) ==
    IF ~EndsWith(fname, DOT_JSON)
    THEN Outcome("not_json", FALSE, <<>>, "none", NoRow)
    ELSE
        LET utt_id == SplitextRoot(fname)
            parts == SplitStr(utt_id, "_")
            r == ReadAndMap(split_name, utt_id, DialogueId(parts), content)
        IN  IF r.kind = "raise" THEN r
            ELSE IF NameTooShort(parts)
            THEN Outcome("bad_name", TRUE, utt_id, "none", NoRow)
            ELSE r

\* Lines 116-166: one iteration of "for fname in os.listdir(split_dir)".
LoopBody(split_name, fname, content) ==
    IF ~EndsWith(fname, DOT_JSON)
    THEN Outcome("not_json", FALSE, <<>>, "none", NoRow)
    ELSE
        LET utt_id == SplitextRoot(fname)
            parts == SplitStr(utt_id, "_")
        IN  IF NameTooShort(parts)
            THEN Outcome("bad_name", FALSE, utt_id, "none", NoRow)
            ELSE ReadAndMap(split_name, utt_id, DialogueId(parts), content)

(* ---------------------------------------------------------------------- *)
(* load_split and build_iemocap_ekman7: helpers                            *)
(* ---------------------------------------------------------------------- *)

\* load_split without the os.path.isdir test
LoadSplitEnter_NoCheck(isdir) == "iterate"

\* os.path.isdir(split_dir) test at the top of load_split: what the call
\* does next, "return_empty" (warning, empty list) or "iterate" (list the
\* directory; os.listdir of a missing directory raises FileNotFoundError).
LoadSplitEnter(isdir) == IF ~isdir THEN "return_empty" ELSE "iterate"

\* The new rows put in front of the combined list
Extend_Prepend(acc, new_rows) == new_rows \o acc

\* all_rows.extend(rows)
Extend(acc, new_rows) == acc \o new_rows

\* The emptiness test left out
IsEmptyResult_Never(acc) == FALSE

\* The emptiness test off by one
IsEmptyResult_Strict(acc) == Len(acc) <= 1

\* if not all_rows
IsEmptyResult(acc) == acc = <<>>

\* The RuntimeError of build_iemocap_ekman7: its message ends with the
\* configured raw_text_root.
EmptyError(root) ==
    [type |-> "RuntimeError",
     msg |-> <<"No utterances were loaded. Check RAW_TEXT_ROOT: ", root>>]

\* An exception that left load_split
LoadError(exc) == [type |-> exc, msg |-> <<>>]

NoError == [type |-> "none", msg |-> <<>>]

\* Column order of the DataFrame: the key order of the row dictionaries
Columns == <<"Split", "Dialogue_ID", "Utterance_ID", "Speaker", "Utterance",
             "Emotion", "Original_Emotion">>

\* The per-split frame without the filter
SplitFrame_NoFilter(df, split) == df

\* df[df["Split"] == split]
SplitFrame(df, split) == SelectSeq(df, LAMBDA r : r.Split = split)

\* os.path.join(out_dir, "iemocap_ekman7_emoberta_<tag>.csv")
CsvPath(out, tag) == <<out, "iemocap_ekman7_emoberta_", tag, ".csv">>

\* DataFrame.to_csv(path, index=False): one header line, then the rows
CsvFile(path, frame) == [path |-> path, header |-> Columns, rows |-> frame]

\* Writing a file replaces what the path held
WriteFile(fs, f) == {g \in fs : g.path # f.path} \cup {f}

\* Sequences of distinct names of length n
RECURSIVE DistinctSeqs(_, _)
DistinctSeqs(names, n) ==
    IF n = 0 THEN {<<>>}
    ELSE UNION {{<<x>> \o t : t \in DistinctSeqs(names \ {x}, n - 1)} : x \in names}

\* What os.listdir can return for a directory of at most n entries
Listings(n) == UNION {DistinctSeqs(FileNames, k) : k \in 0..n}

NoEntry == [split |-> "none", name |-> <<>>, content |-> InvalidJson,
            kind |-> "none", opened |-> FALSE]

(* ---------------------------------------------------------------------- *)
(* State                                                                   *)
(* ---------------------------------------------------------------------- *)

VARIABLES
    raw_text_root,  \* --raw_text_root
    out_dir,        \* --out_dir
    pc,             \* position in build_iemocap_ekman7 / load_split
    si,             \* index into splits of the loop variable "split"
    listing,        \* entries of os.listdir not yet iterated
    rows,           \* load_split's local list
    all_rows,       \* build_iemocap_ekman7's combined list
    err,            \* the exception that ended the run, if any
    out_dir_made,   \* os.makedirs(out_dir) was called
    files,          \* the files written by this run
    warnings,       \* the [WARN] lines printed
    last,           \* the directory entry of the latest loop iteration
    dropped,        \* <<split, utt_id>> of the files read and not emitted
    dirs,           \* per split: "unvisited", "missing" or "present"
    calls,          \* the split names load_split was called with, in order
    found,          \* <<split, utt_id>> of the rows emitted, in discovery order
    corpus,         \* the contents the files of the corpus on disk can have
    budget          \* directory entries still allowed by MaxFiles

vars == <<raw_text_root, out_dir, pc, si, listing, rows, all_rows, err,
          out_dir_made, files, warnings, last, dropped, dirs, calls, found,
          corpus, budget>>

Start ==
    /\ out_dir \in OutDirs
    /\ pc = "load"
    /\ si = 1
    /\ listing = <<>>
    /\ rows = <<>>
    /\ all_rows = <<>>
    /\ err = NoError
    /\ out_dir_made = FALSE
    /\ files = {}
    /\ warnings = {}
    /\ last = NoEntry
    /\ dropped = {}
    /\ dirs = [s \in SplitNames |-> "unvisited"]
    /\ calls = <<>>
    /\ found = <<>>

\* A run over a small dialogue corpus under the usual root
Init ==
    /\ Start
    /\ raw_text_root = "IEMOCAP/raw-texts"
    /\ corpus = DialogueContents
    /\ budget = MaxFiles

\* A run over a corpus with the whole label vocabulary, under either root
InitLabels ==
    /\ Start
    /\ raw_text_root \in RootPaths
    /\ corpus = LabelContents
    /\ budget = MaxLabelFiles

\* The "for split in splits" loop of lines 186-189 moves to the next split,
\* or falls through to the emptiness test.
NextSplit ==
    /\ si' = si + 1
    /\ pc' = IF si = Len(splits) THEN "check" ELSE "load"

(* ---------------------------------------------------------------------- *)
(* Actions                                                                 *)
(* ---------------------------------------------------------------------- *)

\* rows = load_split(os.path.join(raw_text_root, split), split), up to the
\* os.listdir call; for a missing directory, up to all_rows.extend(rows).
CallLoadSplit ==
    /\ pc = "load"
    /\ \E isdir \in BOOLEAN, l \in Listings(budget) :
        LET enter == LoadSplitEnter(isdir)
            split == splits[si]
        IN  /\ dirs' = [dirs EXCEPT ![split] = IF isdir THEN "present" ELSE "missing"]
            /\ calls' = Append(calls, split)
            /\ IF enter = "return_empty"
               THEN /\ warnings' = warnings \cup
                          {<<"Split directory not found", raw_text_root, split>>}
                    /\ all_rows' = Extend(all_rows, <<>>)
                    /\ NextSplit
                    /\ UNCHANGED <<listing, rows, err, budget>>
               ELSE IF enter = "iterate" /\ isdir
               THEN /\ listing' = l
                    /\ rows' = <<>>
                    /\ budget' = budget - Len(l)
                    /\ pc' = "iter"
                    /\ UNCHANGED <<si, all_rows, err, warnings>>
               ELSE /\ err' = LoadError("FileNotFoundError")
                    /\ pc' = "failed"
                    /\ UNCHANGED <<si, listing, rows, all_rows, warnings, budget>>
    /\ UNCHANGED <<raw_text_root, out_dir, out_dir_made, files, last, dropped,
                   found, corpus>>

\* One iteration of the loop over os.listdir(split_dir).
LoopIter ==
    /\ pc = "iter"
    /\ listing # <<>>
    /\ \E content \in corpus :
        LET fname == Head(listing)
            o == LoopBody(splits[si], fname, content)
        IN  /\ last' = [split |-> splits[si], name |-> fname, content |-> content,
                        kind |-> o.kind, opened |-> o.opened]
            /\ IF o.kind = "raise"
               THEN /\ err' = LoadError(o.exc)
                    /\ pc' = "failed"
                    /\ UNCHANGED <<listing, rows, warnings, dropped, found>>
               ELSE /\ listing' = Tail(listing)
                    /\ rows' = IF o.kind = "row" THEN Append(rows, o.row) ELSE rows
                    /\ found' = IF o.kind = "row"
                                THEN Append(found, <<splits[si], o.utt_id>>)
                                ELSE found
                    /\ warnings' = IF o.kind = "bad_name"
                                   THEN warnings \cup {<<"Unexpected utt_id format", o.utt_id>>}
                                   ELSE warnings
                    /\ dropped' = IF o.kind = "dropped"
                                  THEN dropped \cup {<<splits[si], o.utt_id>>}
                                  ELSE dropped
                    /\ UNCHANGED <<err, pc>>
    /\ UNCHANGED <<raw_text_root, out_dir, si, all_rows, out_dir_made, files,
                   dirs, calls, corpus, budget>>

\* return rows; all_rows.extend(rows)
LoadSplitReturn ==
    /\ pc = "iter"
    /\ listing = <<>>
    /\ all_rows' = Extend(all_rows, rows)
    /\ rows' = <<>>
    /\ last' = NoEntry
    /\ NextSplit
    /\ UNCHANGED <<raw_text_root, out_dir, listing, err, out_dir_made, files,
                   warnings, dropped, dirs, calls, found,
                   corpus, budget>>

\* if not all_rows: raise RuntimeError(...); df = pd.DataFrame(all_rows)
CheckEmpty ==
    /\ pc = "check"
    /\ IF IsEmptyResult(all_rows)
       THEN /\ err' = EmptyError(raw_text_root)
            /\ pc' = "failed"
       ELSE /\ pc' = "makedirs"
            /\ UNCHANGED err
    /\ UNCHANGED <<raw_text_root, out_dir, si, listing, rows, all_rows,
                   out_dir_made, files, warnings, last, dropped, dirs, calls, found,
                   corpus, budget>>

\* os.makedirs(out_dir, exist_ok=True)
MakeDirs ==
    /\ pc = "makedirs"
    /\ out_dir_made' = TRUE
    /\ pc' = "save_all"
    /\ UNCHANGED <<raw_text_root, out_dir, si, listing, rows, all_rows, err,
                   files, warnings, last, dropped, dirs, calls, found,
                   corpus, budget>>

\* df.to_csv(all_path, index=False, encoding="utf-8")
SaveAll ==
    /\ pc = "save_all"
    /\ files' = WriteFile(files, CsvFile(CsvPath(out_dir, "all"), all_rows))
    /\ si' = 1
    /\ pc' = "save_split"
    /\ UNCHANGED <<raw_text_root, out_dir, listing, rows, all_rows, err,
                   out_dir_made, warnings, last, dropped, dirs, calls, found,
                   corpus, budget>>

\* One iteration of the second "for split in splits" loop.
SaveSplit ==
    /\ pc = "save_split"
    /\ LET split == splits[si]
       IN  files' = WriteFile(files, CsvFile(CsvPath(out_dir, split),
                                             SplitFrame(all_rows, split)))
    /\ si' = si + 1
    /\ pc' = IF si = Len(splits) THEN "done" ELSE "save_split"
    /\ UNCHANGED <<raw_text_root, out_dir, listing, rows, all_rows, err,
                   out_dir_made, warnings, last, dropped, dirs, calls, found,
                   corpus, budget>>

Next ==
    \/ CallLoadSplit
    \/ LoopIter
    \/ LoadSplitReturn
    \/ CheckEmpty
    \/ MakeDirs
    \/ SaveAll
    \/ SaveSplit

Spec == Init /\ [][Next]_vars

SpecLabels == InitLabels /\ [][Next]_vars

(* ---------------------------------------------------------------------- *)
(* Vocabulary of the properties                                            *)
(* ---------------------------------------------------------------------- *)

Range(seq) == {seq[i] : i \in 1..Len(seq)}

\* The rows of every file written so far
OutRows == UNION {Range(f.rows) : f \in files}

\* Every row the run holds or has written
AnyRows == Range(rows) \cup Range(all_rows) \cup OutRows

Written(tag) == \E f \in files : f.path = CsvPath(out_dir, tag)

FileOf(tag) == CHOOSE f \in files : f.path = CsvPath(out_dir, tag)

\* The three load_split calls have returned
AfterLoads ==
    \/ pc \in {"check", "makedirs", "save_all", "save_split", "done"}
    \/ pc = "failed" /\ err.type = "RuntimeError"

\* The exceptions that leave load_split
LoadErrors == {"JSONDecodeError", "AttributeError", "FileNotFoundError"}

\* The 9-entry table of the specification, written out
TableKeys == {s_anger, s_frustration, s_sadness, s_neutral, s_happiness,
              s_excited, s_surprise, s_fear, s_disgust}

TableTarget(e) ==
    CASE e = s_anger -> s_anger
      [] e = s_frustration -> s_anger
      [] e = s_sadness -> s_sadness
      [] e = s_neutral -> s_neutral
      [] e = s_happiness -> s_joy
      [] e = s_excited -> s_joy
      [] e = s_surprise -> s_surprise
      [] e = s_fear -> s_fear
      [] e = s_disgust -> s_disgust

\* The stem of the latest entry, for a name that ends in ".json"
LastStem == SubSeq(last.name, 1, Len(last.name) - Len(DOT_JSON))

\* The Emotion field of the latest file, as written in the file
LastRawEmotion ==
    IF "Emotion" \in DOMAIN last.content.data THEN last.content.data["Emotion"] ELSE <<>>

\* The latest entry passes both name tests
LastNameOk == EndsWith(last.name, DOT_JSON) /\ "_" \in Range(LastStem)

\* The subsequence of seq with the given Split value, by recursion on seq
RECURSIVE RowsWithSplit(_, _)
RowsWithSplit(seq, s) ==
    IF seq = <<>> THEN <<>>
    ELSE IF Head(seq).Split = s
    THEN <<Head(seq)>> \o RowsWithSplit(Tail(seq), s)
    ELSE RowsWithSplit(Tail(seq), s)

SplitIndex(s) == CHOOSE i \in 1..Len(splits) : splits[i] = s

(* ---------------------------------------------------------------------- *)
(* Properties                                                              *)
(* ---------------------------------------------------------------------- *)

\* C1: for every file load_split reads, with e the Emotion field trimmed and
\* lower-cased: if e is one of the nine table keys, the row emitted for the
\* file carries the table's target as Emotion and e as Original_Emotion;
\* otherwise (undecided, other, empty, anything else) no row for the file
\* exists, in the lists or in any output file.
C1_LabelMapping ==
    /\ (last.opened /\ last.content.kind = "object") =>
         LET e == Lower(Strip(LastRawEmotion))
         IN  IF e \in TableKeys
             THEN /\ last.kind = "row"
                  /\ rows # <<>>
                  /\ rows[Len(rows)].Split = last.split
                  /\ rows[Len(rows)].Utterance_ID = LastStem
                  /\ rows[Len(rows)].Emotion = TableTarget(e)
                  /\ rows[Len(rows)].Original_Emotion = e
             ELSE /\ last.kind = "dropped"
                  /\ <<last.split, LastStem>> \in dropped
    /\ \A d \in dropped :
         \A r \in AnyRows : ~(r.Split = d[1] /\ r.Utterance_ID = d[2])
    /\ \A r \in AnyRows :
         /\ r.Original_Emotion \in TableKeys
         /\ r.Emotion = TableTarget(r.Original_Emotion)

C1_Witness ==
    /\ pc = "done"
    /\ \E r \in OutRows : r.Original_Emotion = s_frustration /\ r.Emotion = s_anger

\* C2: when the combined list is empty after the three load_split calls, the
\* run ends in the RuntimeError whose message names raw_text_root, nothing is
\* written and the output directory is not made; that error is raised only
\* after load_split was called for train, val and test.
C2_EmptyResultError ==
    /\ (AfterLoads /\ all_rows = <<>>) =>
         /\ pc \in {"check", "failed"}
         /\ files = {}
         /\ ~out_dir_made
         /\ pc = "check" => ENABLED CheckEmpty
         /\ pc = "failed" =>
              /\ err.type = "RuntimeError"
              /\ err.msg[Len(err.msg)] = raw_text_root
    /\ err.type = "RuntimeError" =>
         /\ calls = splits
         /\ \A s \in SplitNames : dirs[s] # "unvisited"
         /\ all_rows = <<>>

C2_Witness ==
    /\ pc = "failed"
    /\ err.type = "RuntimeError"
    /\ dirs["train"] = "missing"
    /\ dirs["val"] = "present"
    /\ dropped # {}

\* C3: a file the loader opens and cannot parse ends the run at that file:
\* the run is failed with the parse error, no step follows (no later file,
\* no later split, no write), and no output exists.
C3_ParseFailureIsFatal ==
    (last.opened /\ last.content.kind = "invalid") =>
        /\ pc = "failed"
        /\ err.type = "JSONDecodeError"
        /\ files = {}
        /\ ~out_dir_made
        /\ ~ENABLED Next

C3_Witness ==
    /\ pc = "failed"
    /\ err.type = "JSONDecodeError"
    /\ all_rows # <<>>
    /\ Len(listing) >= 2
    /\ dirs["test"] = "unvisited"

\* C4: in a run that completes, the combined file has as many rows as the
\* train, val and test files together; every combined row has Split in
\* {train, val, test} and is in exactly one per-split file.
C4_RowCount ==
    pc = "done" =>
        /\ Written("all") /\ \A s \in SplitNames : Written(s)
        /\ Len(FileOf("all").rows) =
             Len(FileOf("train").rows) + Len(FileOf("val").rows) + Len(FileOf("test").rows)
        /\ \A r \in Range(FileOf("all").rows) :
             /\ r.Split \in SplitNames
             /\ Cardinality({s \in SplitNames : r \in Range(FileOf(s).rows)}) = 1

C4_Witness ==
    /\ pc = "done"
    /\ Len(FileOf("all").rows) = 3
    /\ Len(FileOf("train").rows) = 2
    /\ Len(FileOf("test").rows) = 1

\* The four paths build_iemocap_ekman7 writes
OutputPaths == {CsvPath(out_dir, "all")} \cup {CsvPath(out_dir, t) : t \in SplitNames}

\* C5 as stated: whenever the three splits produce at least one record, the
\* run ends cleanly with five output files written.
C5_FiveFiles ==
    (pc \in {"done", "failed"} /\ AfterLoads /\ all_rows # <<>>) =>
        /\ pc = "done"
        /\ Cardinality(files) = 5

\* C5, amended: whenever the three splits produce at least one record, the
\* run does not fail, goes on until it is done, and has then written four
\* files, the combined one and one per split, each with the header line; a
\* split that contributed no row has its file written with no rows.
C5_FourFiles ==
    (AfterLoads /\ all_rows # <<>>) =>
        /\ pc # "failed"
        /\ pc # "done" => ENABLED Next
        /\ pc = "done" =>
             /\ {f.path : f \in files} = OutputPaths
             /\ Cardinality(files) = 4
             /\ \A f \in files : f.header = Columns
             /\ \A s \in SplitNames :
                  (\A r \in Range(all_rows) : r.Split # s) => FileOf(s).rows = <<>>

C5_Witness ==
    /\ pc = "done"
    /\ Cardinality(files) = 4
    /\ FileOf("train").rows # <<>>
    /\ FileOf("val").rows = <<>>
    /\ FileOf("test").rows = <<>>

\* C6: a missing split directory makes load_split warn and return no rows
\* without raising; the following splits are still loaded; and when another
\* split has put a row in the combined list, the run goes on until it is
\* done and the missing split's file holds no rows.
C6_MissingSplit ==
    \A s \in SplitNames :
        dirs[s] = "missing" =>
            /\ <<"Split directory not found", raw_text_root, s>> \in warnings
            /\ \A r \in AnyRows : r.Split # s
            /\ (pc = "failed" /\ err.type \in LoadErrors) =>
                 /\ splits[si] # s
                 /\ dirs[splits[si]] = "present"
            /\ pc \in {"load", "iter"} => si > SplitIndex(s)
            /\ pc = "load" => ENABLED CallLoadSplit
            /\ (AfterLoads /\ all_rows # <<>>) =>
                 /\ pc # "failed"
                 /\ pc # "done" => ENABLED Next
                 /\ pc = "done" => Written(s) /\ FileOf(s).rows = <<>>

C6_Witness ==
    /\ pc = "done"
    /\ dirs["train"] = "missing"
    /\ dirs["val"] = "present"
    /\ dirs["test"] = "missing"
    /\ FileOf("val").rows # <<>>

\* C7: every emitted row has, as Utterance_ID, the stem of its file and, as
\* Dialogue_ID, the stem up to its last underscore: Utterance_ID is
\* Dialogue_ID, an underscore and a last segment without underscore.
C7_DialogueId ==
    /\ \A r \in AnyRows :
         LET u == r.Utterance_ID
             d == r.Dialogue_ID
         IN  /\ Len(u) > Len(d)
             /\ SubSeq(u, 1, Len(d)) = d
             /\ u[Len(d) + 1] = "_"
             /\ \A i \in (Len(d) + 2)..Len(u) : u[i] # "_"
    /\ last.kind = "row" =>
         /\ rows # <<>>
         /\ rows[Len(rows)].Utterance_ID \o DOT_JSON = last.name

C7_Witness ==
    /\ pc = "done"
    /\ \E r \in OutRows :
         /\ r.Utterance_ID = <<"b", "_", "c", "_", "2">>
         /\ r.Dialogue_ID = <<"b", "_", "c">>

\* C8: a ".json" entry whose stem has no underscore is skipped with the
\* utt_id warning and without ending the run: it is not opened, no
\* exception is raised, the loop is still iterating over the directory, and
\* no row with that Utterance_ID exists in the lists or in any output file.
C8_NoUnderscoreSkipped ==
    /\ (EndsWith(last.name, DOT_JSON) /\ "_" \notin Range(last.name)) =>
         /\ last.kind = "bad_name"
         /\ ~last.opened
         /\ pc = "iter"
         /\ err = NoError
         /\ \E w \in warnings :
              /\ w[1] = "Unexpected utt_id format"
              /\ w[2] \in {LastStem, last.name}
    /\ \A w \in warnings :
         w[1] = "Unexpected utt_id format" =>
             \A r \in AnyRows : r.Utterance_ID # w[2]

\* A file of the same directory is read, and its row emitted, after the skip
C8_Witness ==
    /\ pc = "iter"
    /\ si = 1
    /\ <<"Unexpected utt_id format", <<"a">>>> \in warnings
    /\ last.kind = "row"
    /\ rows # <<>>

\* C9: load_split is called once per split, in the order train, val, test;
\* the combined list and the combined file hold the rows in discovery order,
\* all train rows, then all val rows, then all test rows; each per-split
\* file is the subsequence of the combined file with that Split value.
C9_Order ==
    /\ Len(calls) <= Len(splits)
    /\ calls = SubSeq(splits, 1, Len(calls))
    /\ AfterLoads =>
         /\ calls = splits
         /\ Len(all_rows) = Len(found)
         /\ \A i \in 1..Len(all_rows) :
              found[i] = <<all_rows[i].Split, all_rows[i].Utterance_ID>>
         /\ \A i, j \in 1..Len(all_rows) :
              i < j => SplitIndex(all_rows[i].Split) <= SplitIndex(all_rows[j].Split)
    /\ Written("all") => FileOf("all").rows = all_rows
    /\ \A s \in SplitNames :
         Written(s) => FileOf(s).rows = RowsWithSplit(FileOf("all").rows, s)

C9_Witness ==
    /\ pc = "done"
    /\ Len(FileOf("all").rows) = 3
    /\ FileOf("all").rows[1].Utterance_ID = <<"b", "_", "c", "_", "2">>
    /\ FileOf("all").rows[2].Utterance_ID = <<"a", "_", "1">>
    /\ FileOf("all").rows[2].Split = "train"
    /\ FileOf("all").rows[3].Split = "val"

\* C10: an entry is opened only after both name tests passed: one whose name
\* does not end in ".json" or whose stem has no underscore is never opened,
\* whatever it holds, and does not end the run; a parse failure comes only
\* from an entry that passed both tests.
C10_NameChecksBeforeOpen ==
    /\ last.opened => LastNameOk
    /\ (last.split # "none" /\ ~LastNameOk) =>
         /\ ~last.opened
         /\ pc = "iter"
         /\ err = NoError
    /\ (pc = "failed" /\ err.type = "JSONDecodeError") =>
         /\ LastNameOk
         /\ last.opened
         /\ last.content.kind = "invalid"

C10_Witness ==
    /\ last.name = n_a
    /\ last.content = InvalidJson
    /\ ~last.opened
    /\ pc = "iter"
    /\ rows # <<>>

====
